---- MODULE Spec2Model ----
(***************************************************************************)
(* CachedObjective and LoggingObjective of                                 *)
(* pypesto/sample/pymc3_interface/theano.py.                               *)
(*                                                                         *)
(* A numpy array is an object of the heap: the caller owns NumArrays array *)
(* objects, passes one of them to call_unprocessed and may later write to  *)
(* it in place.  CachedObjective keeps a reference to the array it was     *)
(* given (line 81), so x_cached is an array id, never a copy.              *)
(* An optional Python value is a sequence of length at most one:           *)
(* None is << >> and a value v is <<v>>.                                   *)
(***************************************************************************)
EXTENDS Integers, Sequences, FiniteSets, TLC

VARIABLES heap, x_cached, fval_cached, grad_cached, grad_has_been_used,
          file, log0, hist, steady, ninner, last,
          ctor, copy, reading, caps, consumed, run

vars == <<heap, x_cached, fval_cached, grad_cached, grad_has_been_used,
          file, log0, hist, steady, ninner, last,
          ctor, copy, reading, caps, consumed, run>>

(* heap: content of the caller's arrays; x_cached .. grad_has_been_used:   *)
(* the attributes of the CachedObjective; file: the pickled log;           *)
(* log0: the log right after LoggingObjective.__init__.                    *)
(* History: hist, the sensi_orders of the calls made so far; steady, all   *)
(* of them returned, at one and the same point, with no initialize and no  *)
(* in-place write to the cached array in between; ninner, the number of    *)
(* calls of the wrapped objective so far; last, the latest call.           *)
(* ctor: the arguments LoggingObjective.__init__ was given and the file it *)
(* found; copy: the cache of the recorder made by __deepcopy__, None while *)
(* there is none; reading: per recorder, the log it has read in a call     *)
(* that has not yet written; caps: the order sets the wrapped objective    *)
(* advertises.  History: consumed, a request with the gradient has been    *)
(* answered since the cache was last populated; run, the value-only calls  *)
(* made since the last call with other orders, each with what it did.      *)

(* ------------------------------ bounds --------------------------------- *)
NumArrays == 2
MaxCalls == 3
MaxLogCalls == 2

(* ------------------------------ values --------------------------------- *)
None == << >>
Some(v) == <<v>>

ArrayIds == 1..NumArrays
(* The recorder constructed first and the one made from it by deepcopy.    *)
Recorders == {1, 2}
(* The points the caller evaluates at, as one-element arrays; the code     *)
(* only compares points for equality and hands them to the objective.      *)
Points == {<<0>>, <<1>>}

SupportedOrders == {<<0>>, <<1>>, <<0, 1>>}
Orders == SupportedOrders \cup {<<2>>}

RECURSIVE SumSq(_, _)
SumSq(x, n) == IF n = 0 THEN 0 ELSE x[n] * x[n] + n * x[n] + SumSq(x, n - 1)

(* The wrapped objective: a deterministic function of the point.           *)
InnerFval(x) == SumSq(x, Len(x))
InnerGrad(x) == [i \in 1..Len(x) |-> 2 * x[i] + i]

(* self.objective.call_unprocessed(x, orders, mode): a ResultDict with the *)
(* entries of the requested orders.                                        *)
InnerResult(x, orders) ==
    [fval |-> IF \E i \in 1..Len(orders) : orders[i] = 0
              THEN Some(InnerFval(x)) ELSE None,
     grad |-> IF \E i \in 1..Len(orders) : orders[i] = 1
              THEN Some(InnerGrad(x)) ELSE None]

NoResult == [fval |-> None, grad |-> None]

(* array_equal, but never true.                                            *)
array_equal_never(x, xc) == FALSE

(* np.array_equal(x, self.x_cached): x is an array, xc the content of the  *)
(* cached array or None; equal shape and equal elements.                   *)
array_equal(x, xc) ==
    /\ xc # None
    /\ Len(x) = Len(xc[1])
    /\ \A i \in 1..Len(x) : x[i] = xc[1][i]

(* ------------------------- CachedObjective ----------------------------- *)
(* The four cache attributes as one record.                                *)
CacheState == [x_cached |-> x_cached, fval_cached |-> fval_cached,
               grad_cached |-> grad_cached,
               grad_has_been_used |-> grad_has_been_used]

FreshCache == [x_cached |-> None, fval_cached |-> None,
               grad_cached |-> None, grad_has_been_used |-> FALSE]

(* Content of the array the cache refers to, read at the time of use.      *)
Deref(h, xc) == IF xc = None THEN None ELSE Some(h[xc[1]])

(* Outcome of one call: the cache afterwards, the orders of the inner      *)
(* calls made (in order), whether the inner call raised, the exception     *)
(* leaving the call (None if it returned) and the returned ResultDict.     *)
Outcome(c, inner, innerRaised, raised, ret) ==
    [cache |-> c, inner |-> inner, innerRaised |-> innerRaised,
     raised |-> raised, ret |-> ret]

(* Delegate, but the gradient is computed along with the value.            *)
Delegate_joint(c, x, orders, fail) ==
    IF fail
    THEN Outcome(c, << <<0, 1>> >>, TRUE, Some("InnerError"), NoResult)
    ELSE Outcome(c, << <<0, 1>> >>, FALSE, None, InnerResult(x, orders))

(* Delegate, but the wrapped objective is called a second time.            *)
Delegate_twice(c, x, orders, fail) ==
    IF fail
    THEN Outcome(c, <<orders>>, TRUE, Some("InnerError"), NoResult)
    ELSE Outcome(c, <<orders, orders>>, FALSE, None, InnerResult(x, orders))

(* Lines 69 and 78: return self.objective.call_unprocessed(x, (0,), mode)  *)
Delegate(c, x, orders, fail) ==
    IF fail
    THEN Outcome(c, <<orders>>, TRUE, Some("InnerError"), NoResult)
    ELSE Outcome(c, <<orders>>, FALSE, None, InnerResult(x, orders))

(* Deactivate, but x_cached is not cleared.                                *)
Deactivate_keep(c) == c

(* Lines 76-77: the unused cache is switched off.                          *)
Deactivate(c) == [c EXCEPT !.x_cached = None]

(* Line 80: the orders asked of the wrapped objective on a repopulation,   *)
(* whatever the requested orders are.  First the variant that passes the   *)
(* requested orders on.                                                    *)
RepopulateOrders_requested(orders) == orders

RepopulateOrders(orders) == <<0, 1>>

(* Repopulate, but line 85 is missing.                                     *)
Repopulate_nograd(c, xid, r) ==
    [x_cached |-> Some(xid), fval_cached |-> r.fval,
     grad_cached |-> c.grad_cached, grad_has_been_used |-> FALSE]

(* Lines 81-86: the joint result r is stored for the array xid.            *)
Repopulate(c, xid, r) ==
    [x_cached |-> Some(xid), fval_cached |-> r.fval,
     grad_cached |-> r.grad, grad_has_been_used |-> FALSE]

(* RepopulateFailed, had line 81 been placed before line 80.               *)
RepopulateFailed_early(c, xid) == [c EXCEPT !.x_cached = Some(xid)]

(* Line 80 raised: the assignments of lines 81-86 are not reached.         *)
RepopulateFailed(c, xid) == c

(* Answer, but lines 91 and 96 are missing: the use is not noted.          *)
Answer_use_not_noted(c, orders, inner) ==
    IF orders = <<0>>
    THEN Outcome(c, inner, FALSE, None,
                 [fval |-> c.fval_cached, grad |-> None])
    ELSE IF orders = <<1>>
    THEN Outcome(c, inner, FALSE, None,
                 [fval |-> None, grad |-> c.grad_cached])
    ELSE IF orders = <<0, 1>>
    THEN Outcome(c, inner, FALSE, None,
                 [fval |-> c.fval_cached, grad |-> c.grad_cached])
    ELSE Outcome(c, inner, FALSE, Some("AssertionError"), NoResult)

(* Lines 89-97: the answer is taken from the cache.                        *)
Answer(c, orders, inner) ==
    IF orders = <<0>>
    THEN Outcome(c, inner, FALSE, None,
                 [fval |-> c.fval_cached, grad |-> None])
    ELSE IF orders = <<1>>
    THEN Outcome([c EXCEPT !.grad_has_been_used = TRUE], inner, FALSE, None,
                 [fval |-> None, grad |-> c.grad_cached])
    ELSE IF orders = <<0, 1>>
    THEN Outcome([c EXCEPT !.grad_has_been_used = TRUE], inner, FALSE, None,
                 [fval |-> c.fval_cached, grad |-> c.grad_cached])
    ELSE Outcome(c, inner, FALSE, Some("AssertionError"), NoResult)

(* Miss, but every value-only miss switches the cache off, used or not.    *)
Miss_always_off(c, x, xid, orders, fail) ==
    IF orders = <<0>>
    THEN Delegate(Deactivate(c), x, orders, fail)
    ELSE IF fail
         THEN Outcome(RepopulateFailed(c, xid), <<RepopulateOrders(orders)>>,
                      TRUE, Some("InnerError"), NoResult)
         ELSE Answer(Repopulate(c, xid,
                                InnerResult(x, RepopulateOrders(orders))),
                     orders, <<RepopulateOrders(orders)>>)

(* Miss, but without lines 76-78: every miss repopulates the cache.        *)
Miss_always_repopulate(c, x, xid, orders, fail) ==
    IF fail
    THEN Outcome(RepopulateFailed(c, xid), <<RepopulateOrders(orders)>>,
                 TRUE, Some("InnerError"), NoResult)
    ELSE Answer(Repopulate(c, xid, InnerResult(x, RepopulateOrders(orders))),
                orders, <<RepopulateOrders(orders)>>)

(* Lines 73-86: the request misses the cache.                              *)
Miss(c, x, xid, orders, fail) ==
    IF orders = <<0>> /\ ~c.grad_has_been_used
    THEN Delegate(Deactivate(c), x, orders, fail)
    ELSE IF fail
         THEN Outcome(RepopulateFailed(c, xid), <<RepopulateOrders(orders)>>,
                      TRUE, Some("InnerError"), NoResult)
         ELSE Answer(Repopulate(c, xid,
                                InnerResult(x, RepopulateOrders(orders))),
                     orders, <<RepopulateOrders(orders)>>)

(* CachedObjective.call_unprocessed(x, sensi_orders, mode) on cache c,     *)
(* with x the array xid of heap h; fail: the wrapped objective raises.     *)
CachedObjective_call_unprocessed(c, h, xid, orders, fail) ==
    LET x == h[xid] IN
    IF orders = <<0>> /\ c.x_cached = None
    THEN Delegate(c, x, orders, fail)
    ELSE IF ~array_equal(x, Deref(h, c.x_cached))
         THEN Miss(c, x, xid, orders, fail)
         ELSE Answer(c, orders, << >>)

(* -------------------------- LoggingObjective --------------------------- *)
OldRecord == [x |-> <<0>>, sensi_orders |-> <<0>>,
              fval |-> Some(0), err |-> None]

(* LoggingObjective.__init__, but the file is emptied whatever reset is.    *)
LoggingObjective_init_truncate(exists, content, reset) == << >>

(* LoggingObjective.__init__: the content of the log file afterwards.      *)
LoggingObjective_init(exists, content, reset) ==
    IF exists
    THEN IF reset THEN << >> ELSE content
    ELSE << >>

(* LogAfter, but with the write in the else clause only: a call that       *)
(* raised leaves the file as it was.                                       *)
LogAfter_success_only(log, x, orders, r) ==
    IF r.raised # None \/ r.ret.fval = None
    THEN log
    ELSE Append(log, [x |-> x, sensi_orders |-> orders,
                      fval |-> r.ret.fval, err |-> None])

(* Lines 162-172: the log read from the file, extended by the record of    *)
(* the call whose outcome is r, as written back by the finally clause;     *)
(* and the exception leaving LoggingObjective.call_unprocessed.            *)
LogAfter(log, x, orders, r) ==
    IF r.raised # None
    THEN Append(log, [x |-> x, sensi_orders |-> orders,
                      fval |-> None, err |-> r.raised])
    ELSE IF r.ret.fval = None
         THEN log
         ELSE Append(log, [x |-> x, sensi_orders |-> orders,
                           fval |-> r.ret.fval, err |-> None])

LogRaised(r) ==
    IF r.raised # None THEN r.raised
    ELSE IF r.ret.fval = None THEN Some("KeyError")
    ELSE None

(* pypesto.objective.constants: the two modes of an objective.            *)
MODE_FUN == "mode_fun"
MODE_RES == "mode_res"
Modes == {MODE_FUN, MODE_RES}

MaxOf(orders) ==
    CHOOSE m \in {orders[k] : k \in 1..Len(orders)} :
        \A k \in 1..Len(orders) : orders[k] <= m

(* check_sensi_orders of the wrapped objective: it advertises the order    *)
(* sets in cs, for function mode.                                          *)
Inner_check_sensi_orders(cs, orders, mode) ==
    mode = MODE_FUN /\ orders \in cs

(* CachedObjective.check_sensi_orders (lines 102-106) around an objective  *)
(* that advertises cs.                                                     *)
CachedObjective_check_sensi_orders(cs, orders, mode) ==
    IF MaxOf(orders) > 1 \/ mode # MODE_FUN
    THEN FALSE
    ELSE Inner_check_sensi_orders(cs, orders, mode)

(* LoggingObjective.check_sensi_orders (lines 177-178) around the cache.   *)
LoggingObjective_check_sensi_orders(cs, orders, mode) ==
    CachedObjective_check_sensi_orders(cs, orders, mode)

(* ------------------------------ actions -------------------------------- *)
recvars == <<file, log0, ctor, copy, reading>>

NoCall == [xid |-> 0, x |-> << >>, orders |-> << >>, inner |-> << >>,
           innerRaised |-> FALSE, raised |-> None, ret |-> NoResult,
           lraised |-> None, lret |-> NoResult, intervened |-> FALSE]

(* The latest call: its argument, what the cache did (r), and what left    *)
(* the outermost call: the exception lraised or the ResultDict lret.       *)
Event(xid, orders, r, lraised) ==
    [xid |-> xid, x |-> heap[xid], orders |-> orders,
     inner |-> r.inner, innerRaised |-> r.innerRaised,
     raised |-> r.raised, ret |-> r.ret, lraised |-> lraised,
     lret |-> IF lraised = None THEN r.ret ELSE NoResult,
     intervened |-> FALSE]

SetCache(c) ==
    /\ x_cached' = c.x_cached
    /\ fval_cached' = c.fval_cached
    /\ grad_cached' = c.grad_cached
    /\ grad_has_been_used' = c.grad_has_been_used

(* What a value-only call did: delegated with the cache off, answered     *)
(* from the cache, switched the cache off, or repopulated it.              *)
RunTag(c, r) ==
    IF r.inner = << >> THEN "hit"
    ELSE IF r.inner = << <<0, 1>> >>
         THEN IF r.innerRaised THEN "jointfail" ELSE "joint"
         ELSE IF c.x_cached = None THEN "direct" ELSE "off"

RecordCall(xid, orders, r, lraised) ==
    /\ hist' = Append(hist, orders)
    /\ ninner' = ninner + Len(r.inner)
    /\ last' = Event(xid, orders, r, lraised)

Record(xid, orders, r, lraised) ==
    /\ RecordCall(xid, orders, r, lraised)
    /\ steady' = /\ steady
                 /\ r.raised = None
                 /\ hist # << >> => (heap[xid] = last.x /\ ~last.intervened)
    /\ consumed' =
          IF r.cache.x_cached = None THEN FALSE
          ELSE IF r.inner = << <<0, 1>> >> /\ ~r.innerRaised
               THEN r.raised = None /\ orders \in {<<1>>, <<0, 1>>}
               ELSE \/ consumed
                    \/ r.raised = None /\ orders \in {<<1>>, <<0, 1>>}
    /\ run' = IF orders = <<0>>
              THEN Append(run, RunTag(CacheState, r)) ELSE << >>

(* CachedObjective.__init__ (lines 45-48), no call made yet.               *)
InitCache ==
    /\ x_cached = None
    /\ fval_cached = None
    /\ grad_cached = None
    /\ grad_has_been_used = FALSE
    /\ hist = << >>
    /\ steady = TRUE
    /\ ninner = 0
    /\ last = NoCall
    /\ consumed = FALSE
    /\ run = << >>
    /\ copy = None
    /\ reading = [i \in Recorders |-> None]

(* The cache on its own: there is no recorder and the log stays empty.     *)
Init ==
    /\ InitCache
    /\ heap \in [ArrayIds -> Points]
    /\ caps = SupportedOrders
    /\ ctor = [exists |-> FALSE, content |-> << >>, reset |-> TRUE]
    /\ log0 = << >>
    /\ file = log0

(* The cache wrapped by a recorder: LoggingObjective.__init__ on a file    *)
(* that is absent, or present with or without records.                     *)
InitLog ==
    /\ InitCache
    /\ heap = [a \in ArrayIds |-> IF a % 2 = 1 THEN <<0>> ELSE <<1>>]
    /\ caps = SupportedOrders
    /\ \E exists \in BOOLEAN, reset \in BOOLEAN,
          content \in {<< >>, <<OldRecord>>} :
          /\ (~exists => content = << >>)
          /\ ctor = [exists |-> exists, content |-> content, reset |-> reset]
          /\ log0 = LoggingObjective_init(exists, content, reset)
          /\ file = log0

(* The caller calls CachedObjective.call_unprocessed itself.               *)
CachedCall(xid, orders, fail) ==
    /\ Len(hist) < MaxCalls
    /\ LET r == CachedObjective_call_unprocessed(CacheState, heap, xid,
                                                 orders, fail)
       IN /\ SetCache(r.cache)
          /\ Record(xid, orders, r, r.raised)
    /\ UNCHANGED <<heap, recvars, caps>>

(* The cache that recorder i wraps: the first recorder wraps the cache of  *)
(* the variables, the copy wraps the cache made by line 51.                *)
CacheOf(i) == IF i = 1 THEN CacheState ELSE copy[1]

(* Lines 162-172 of recorder i, on the log it has read: the call of the    *)
(* wrapped cache, the append and the write of the whole log.               *)
LogCall(i, log, xid, orders, fail) ==
    LET r == CachedObjective_call_unprocessed(CacheOf(i), heap, xid,
                                              orders, fail)
    IN /\ IF i = 1
          THEN /\ SetCache(r.cache)
               /\ Record(xid, orders, r, LogRaised(r))
               /\ copy' = copy
          ELSE /\ copy' = Some(r.cache)
               /\ RecordCall(xid, orders, r, LogRaised(r))
               /\ UNCHANGED <<x_cached, fval_cached, grad_cached,
                              grad_has_been_used, steady, consumed, run>>
       /\ file' = LogAfter(log, heap[xid], orders, r)

(* LoggingObjective.call_unprocessed of recorder i, from the read of the   *)
(* log to its write, with no other call in between.                        *)
LoggingObjective_call_unprocessed(i, xid, orders, fail) ==
    /\ Len(hist) < MaxLogCalls
    /\ i = 1 \/ copy # None
    /\ LogCall(i, file, xid, orders, fail)
    /\ UNCHANGED <<heap, log0, ctor, reading, caps>>

(* LoggingObjective.__deepcopy__ (line 146): a recorder on the same file,  *)
(* which exists, with reset=False, around a copy of the cache, which       *)
(* CachedObjective.__deepcopy__ (line 51) makes a new CachedObjective.     *)
LoggingObjective_deepcopy ==
    /\ copy = None
    /\ copy' = Some(FreshCache)
    /\ file' = LoggingObjective_init(TRUE, file, FALSE)
    /\ UNCHANGED <<heap, x_cached, fval_cached, grad_cached,
                   grad_has_been_used, log0, ctor, reading, caps,
                   hist, steady, ninner, last, consumed, run>>

(* Lines 158-159 of recorder i: the whole log is read.                     *)
LoggingObjective_read(i) ==
    /\ Len(hist) + Cardinality({j \in Recorders : reading[j] # None})
          < MaxLogCalls
    /\ i = 1 \/ copy # None
    /\ reading[i] = None
    /\ reading' = [reading EXCEPT ![i] = Some(file)]
    /\ UNCHANGED <<heap, x_cached, fval_cached, grad_cached,
                   grad_has_been_used, file, log0, ctor, copy, caps,
                   hist, steady, ninner, last, consumed, run>>

(* Lines 162-172 of recorder i, some time after its read.                  *)
LoggingObjective_finish(i, xid, orders, fail) ==
    /\ reading[i] # None
    /\ LogCall(i, reading[i][1], xid, orders, fail)
    /\ reading' = [reading EXCEPT ![i] = None]
    /\ UNCHANGED <<heap, log0, ctor, caps>>

(* CachedObjective.initialize (lines 53-58).                               *)
CachedObjective_initialize ==
    /\ SetCache(FreshCache)
    /\ last' = [last EXCEPT !.intervened = TRUE]
    /\ consumed' = FALSE
    /\ UNCHANGED <<heap, recvars, caps, hist, steady, ninner, run>>

(* The caller writes new content into one of its arrays.  Writing to the   *)
(* array the cache refers to is the in-place reuse of an array passed      *)
(* earlier; writing to another array is the making of a new argument.      *)
WriteArray(a, p) ==
    /\ heap[a] # p
    /\ heap' = [heap EXCEPT ![a] = p]
    /\ last' = IF x_cached = Some(a)
               THEN [last EXCEPT !.intervened = TRUE] ELSE last
    /\ UNCHANGED <<x_cached, fval_cached, grad_cached, grad_has_been_used,
                   recvars, caps, hist, steady, ninner, consumed, run>>

(* The order sets a wrapped objective may advertise: the value alone is    *)
(* always among them.                                                      *)
CapsChoices == {cs \in SUBSET SupportedOrders : <<0>> \in cs}

(* The cache around an objective that advertises any of these sets.        *)
InitCaps ==
    /\ InitCache
    /\ heap = [a \in ArrayIds |-> IF a % 2 = 1 THEN <<0>> ELSE <<1>>]
    /\ caps \in CapsChoices
    /\ ctor = [exists |-> FALSE, content |-> << >>, reset |-> TRUE]
    /\ log0 = << >>
    /\ file = log0

(* A caller that asks check_sensi_orders first, as ObjectiveBase.__call__  *)
(* does, and calls only with an order set the cache advertises.            *)
CheckedCall(xid, orders, fail) ==
    /\ CachedObjective_check_sensi_orders(caps, orders, MODE_FUN)
    /\ CachedCall(xid, orders, fail)

(* The cache used on its own.                                              *)
Next ==
    \/ \E xid \in ArrayIds, orders \in Orders, fail \in BOOLEAN :
          CachedCall(xid, orders, fail)
    \/ CachedObjective_initialize
    \/ \E a \in ArrayIds, p \in Points : WriteArray(a, p)

Spec == Init /\ [][Next]_vars

(* The cache called through the recorder that wraps it.                    *)
NextLog ==
    \/ \E i \in Recorders, xid \in ArrayIds, orders \in Orders,
          fail \in BOOLEAN :
          LoggingObjective_call_unprocessed(i, xid, orders, fail)
    \/ LoggingObjective_deepcopy

SpecLog == InitLog /\ [][NextLog]_vars

(* The recorder and its copy used by two callers at once, as for parallel  *)
(* starts: the calls of the two overlap between the read and the write.    *)
NextPar ==
    \/ LoggingObjective_deepcopy
    \/ \E i \in Recorders : LoggingObjective_read(i)
    \/ \E i \in Recorders, xid \in ArrayIds, orders \in Orders,
          fail \in BOOLEAN :
          LoggingObjective_finish(i, xid, orders, fail)

SpecPar == InitLog /\ [][NextPar]_vars

(* The cache around objectives of differing capabilities, called only with *)
(* order sets it advertises.                                               *)
NextCaps ==
    \/ \E xid \in ArrayIds, orders \in Orders, fail \in BOOLEAN :
          CheckedCall(xid, orders, fail)
    \/ CachedObjective_initialize

SpecCaps == InitCaps /\ [][NextCaps]_vars

(* ------------------------------ properties ----------------------------- *)
IsCall == Len(hist') = Len(hist) + 1

CacheUnchanged ==
    UNCHANGED <<x_cached, fval_cached, grad_cached, grad_has_been_used>>

ValueOnly == \A i \in 1..Len(hist) : hist[i] = <<0>>

(* C1: as long as every call since construction asked for the value only,  *)
(* each call made exactly one call of the wrapped objective, with orders   *)
(* (0,), and x_cached is None after it.                                    *)
C1_ValueOnlyNeverCaches ==
    (ValueOnly /\ hist # << >>) =>
        /\ last.inner = << <<0>> >>
        /\ ninner = Len(hist)
        /\ x_cached = None

C1_Witness ==
    /\ ValueOnly
    /\ Len(hist) >= 2
    /\ ~steady
    /\ last.raised = None

(* C2 as stated: on a fresh cache, a call with orders (1,) followed, with  *)
(* nothing in between, by a call with orders (0,) at another point makes   *)
(* two calls of the wrapped objective in total and leaves x_cached None.   *)
C2_SelfDeactivation ==
    [][(/\ hist = << <<1>> >>
        /\ ~last.intervened
        /\ IsCall
        /\ last'.orders = <<0>>
        /\ last'.x # last.x)
       => (ninner' = 2 /\ x_cached' = None)]_vars

(* C2 amended: the call with orders (1,) hands the gradient out, so the    *)
(* value-only call at another point that follows it repopulates the cache: *)
(* two calls of the wrapped objective in total, the second with orders     *)
(* (0,1), and when it returns x_cached is the second array with            *)
(* grad_has_been_used False.  A further value-only call at a third point,  *)
(* again with nothing in between, is the one that leaves x_cached None,    *)
(* after three calls of the wrapped objective in total.                    *)
C2_DeactivationOnSecondMiss ==
    [][/\ (/\ hist = << <<1>> >>
           /\ last.raised = None
           /\ ~last.intervened
           /\ IsCall
           /\ last'.orders = <<0>>
           /\ last'.x # last.x)
          => /\ ninner' = 2
             /\ last'.inner = << <<0, 1>> >>
             /\ ~last'.innerRaised =>
                   /\ x_cached' = Some(last'.xid)
                   /\ ~grad_has_been_used'
                   /\ last'.ret = InnerResult(last'.x, <<0>>)
       /\ (/\ hist = << <<1>>, <<0>> >>
           /\ last.inner = << <<0, 1>> >>
           /\ last.raised = None
           /\ ~last.intervened
           /\ IsCall
           /\ last'.orders = <<0>>
           /\ last'.x # last.x)
          => /\ ninner' = 3
             /\ last'.inner = << <<0>> >>
             /\ x_cached' = None
      ]_vars

C2_Witness ==
    /\ hist = << <<1>>, <<0>> >>
    /\ ninner = 2
    /\ last.inner = << <<0, 1>> >>
    /\ last.raised = None
    /\ x_cached = Some(last.xid)
    /\ ~grad_has_been_used

(* C3: a call that returned with orders (0,1) or (1,), followed with       *)
(* nothing in between by a call at the same point with orders (0,), (1,)   *)
(* or (0,1): the second call makes no call of the wrapped objective and    *)
(* returns the stored value and gradient, those the first call returned.   *)
(* And three returning calls (0,), (1,), (0,) at one point on a fresh      *)
(* cache make two calls of the wrapped objective in total.                 *)
C3_HitCorrectness ==
    [][/\ (/\ hist # << >>
           /\ last.raised = None
           /\ last.orders \in {<<0, 1>>, <<1>>}
           /\ ~last.intervened
           /\ IsCall
           /\ last'.x = last.x
           /\ last'.orders \in SupportedOrders)
          => /\ last'.inner = << >>
             /\ last'.raised = None
             /\ last'.ret.fval =
                  (IF last'.orders = <<1>> THEN None ELSE fval_cached)
             /\ last'.ret.grad =
                  (IF last'.orders = <<0>> THEN None ELSE grad_cached)
             /\ last'.ret.grad # None => last'.ret.grad = last.ret.grad
             /\ (last'.ret.fval # None /\ last.ret.fval # None)
                   => last'.ret.fval = last.ret.fval
       /\ (steady' /\ hist' = << <<0>>, <<1>>, <<0>> >>)
          => (ninner' = 2 /\ last'.ret.fval = Some(InnerFval(last'.x)))
      ]_vars

C3_Witness ==
    /\ steady
    /\ hist = << <<0>>, <<1>>, <<0>> >>
    /\ ninner = 2
    /\ last.inner = << >>
    /\ last.ret.fval = fval_cached

(* C4: every answer served from the cache for a requested point equals the *)
(* result of a direct evaluation of the wrapped objective at that point,   *)
(* also when the caller has written in place to an array it passed before. *)
C4_JointConsistency ==
    (hist # << >> /\ last.raised = None /\ last.inner = << >>)
        => last.ret = InnerResult(last.x, last.orders)

(* C5: a log that starts empty holds one record per call, in call order;   *)
(* the record of a call that raised has the error and no value, that of a  *)
(* call that returned has the value and no error.                          *)
C5_RecorderCompleteness ==
    (log0 = << >> /\ hist # << >>) =>
        /\ Len(file) = Len(hist)
        /\ file[Len(file)].x = last.x
        /\ file[Len(file)].sensi_orders = last.orders
        /\ last.raised # None =>
              (file[Len(file)].err # None /\ file[Len(file)].fval = None)
        /\ last.raised = None =>
              (file[Len(file)].fval # None /\ file[Len(file)].err = None)

(* C6: when the wrapped objective raises in a repopulation, its exception  *)
(* leaves the call and the four cache attributes are unchanged.            *)
C6_FailureAtomicity ==
    [][(IsCall /\ last'.innerRaised /\ last'.inner = << <<0, 1>> >>)
       => (CacheUnchanged /\ last'.raised = Some("InnerError"))]_vars

C6_Witness ==
    /\ hist # << >>
    /\ last.innerRaised
    /\ last.inner = << <<0, 1>> >>
    /\ x_cached # None
    /\ x_cached # Some(last.xid)

(* C7 as stated: fval_cached and grad_cached are defined if and only if    *)
(* x_cached is not None; here after calls with supported orders only.      *)
C7_DefinedIff ==
    (\A i \in 1..Len(hist) : hist[i] \in SupportedOrders) =>
        ((fval_cached # None /\ grad_cached # None) <=> (x_cached # None))

(* C7 amended: fval_cached and grad_cached are defined whenever x_cached   *)
(* is not None, and the one is defined exactly when the other is.          *)
C7_DefinedWhenEngaged ==
    /\ x_cached # None => (fval_cached # None /\ grad_cached # None)
    /\ (fval_cached = None) <=> (grad_cached = None)

C7_Witness ==
    /\ x_cached # None
    /\ Len(hist) >= 2
    /\ last.orders = <<0>>
    /\ last.inner = << <<0, 1>> >>

(* C8: a call with unsupported orders raises without a call of the wrapped *)
(* objective and without a change of the cache attributes.                 *)
C8_UnsupportedFailsFirst ==
    [][(IsCall /\ last'.orders \notin SupportedOrders)
       => (last'.inner = << >> /\ last'.raised # None /\ CacheUnchanged)]_vars

(* C9: a value-only call at a point unequal to the cached one, with the    *)
(* cached gradient unused, makes one call (0,) of the wrapped objective,   *)
(* passes its outcome on and leaves x_cached None; and no other call turns *)
(* x_cached from an array into None.                                       *)
C9_DeactivationRule ==
    [][IsCall =>
        LET off == /\ x_cached # None
                   /\ last'.orders = <<0>>
                   /\ ~array_equal(last'.x, Deref(heap, x_cached))
                   /\ ~grad_has_been_used
        IN /\ off => /\ last'.inner = << <<0>> >>
                     /\ x_cached' = None
                     /\ IF last'.innerRaised
                        THEN last'.raised = Some("InnerError")
                        ELSE /\ last'.raised = None
                             /\ last'.ret = InnerResult(last'.x, <<0>>)
           /\ (x_cached # None /\ x_cached' = None) => off
      ]_vars

C9_Witness ==
    /\ Len(hist) >= 3
    /\ last.orders = <<0>>
    /\ last.inner = << <<0>> >>
    /\ last.raised = None
    /\ x_cached = None
    /\ grad_cached # None
    /\ grad_cached # Some(InnerGrad(last.x))

(* C10: a miss that does not switch the cache off makes one call (0,1) of  *)
(* the wrapped objective whatever the requested orders; when that call     *)
(* returns, the cache holds the requested array with the value and the     *)
(* gradient returned, and the caller gets the requested orders of them.    *)
C10_Repopulation ==
    [][IsCall =>
        LET miss == ~array_equal(last'.x, Deref(heap, x_cached))
            case == \/ last'.orders \in {<<1>>, <<0, 1>>} /\ miss
                    \/ /\ last'.orders = <<0>>
                       /\ x_cached # None
                       /\ miss
                       /\ grad_has_been_used
        IN case => /\ last'.inner = << <<0, 1>> >>
                   /\ ~last'.innerRaised =>
                        /\ x_cached' = Some(last'.xid)
                        /\ fval_cached' = Some(InnerFval(last'.x))
                        /\ grad_cached' = Some(InnerGrad(last'.x))
                        /\ last'.raised = None
                        /\ last'.ret = InnerResult(last'.x, last'.orders)
      ]_vars

C10_Witness ==
    /\ Len(hist) >= 2
    /\ last.orders = <<0>>
    /\ last.inner = << <<0, 1>> >>
    /\ last.raised = None
    /\ x_cached = Some(last.xid)
    /\ last.ret = [fval |-> Some(InnerFval(last.x)), grad |-> None]

IsPrefix(s, t) == Len(s) <= Len(t) /\ SubSeq(t, 1, Len(s)) = s

(* C11: when the wrapped objective raises in a call of the recorder, the   *)
(* file holds, when the call is left, the log as read plus the record of   *)
(* this call with the error, and the exception leaving the call is that of *)
(* the wrapped objective; a call that returns a value leaves the log plus  *)
(* the record with the value.                                              *)
C11_FailureRecorded ==
    [][IsCall =>
        /\ last'.raised # None =>
             /\ file' = Append(file, [x |-> last'.x,
                                      sensi_orders |-> last'.orders,
                                      fval |-> None, err |-> last'.raised])
             /\ last'.lraised = last'.raised
        /\ (last'.raised = None /\ last'.ret.fval # None) =>
             file' = Append(file, [x |-> last'.x,
                                   sensi_orders |-> last'.orders,
                                   fval |-> last'.ret.fval, err |-> None])
      ]_vars

C11_Witness ==
    /\ Len(hist) = 2
    /\ last.innerRaised
    /\ last.lraised = Some("InnerError")
    /\ Len(file) >= 2
    /\ file[Len(file)].err = Some("InnerError")
    /\ file[Len(file) - 1].err = None

(* C12: a call of the recorder that the wrapped objective answers returns  *)
(* that answer and raises nothing, and the recorder advertises the order   *)
(* sets the wrapped objective advertises.                                  *)
C12_Transparent ==
    /\ (hist # << >> /\ last.raised = None)
          => (last.lraised = None /\ last.lret = last.ret)
    /\ \A orders \in Orders, mode \in Modes :
          LoggingObjective_check_sensi_orders(caps, orders, mode)
              = CachedObjective_check_sensi_orders(caps, orders, mode)

(* C13: after construction the log is the content found when the file was  *)
(* there and reset is false, and empty otherwise; every step keeps the     *)
(* records of the file in place and in order, new ones coming after them;  *)
(* deepcopy leaves the file as it is.                                      *)
C13_ConstructionKeepsLog ==
    /\ [](log0 = IF ctor.exists /\ ~ctor.reset THEN ctor.content ELSE << >>)
    /\ [][/\ IsPrefix(file, file')
          /\ (copy = None /\ copy' # None) => file' = file]_vars

C13_Witness ==
    /\ ctor.exists
    /\ ~ctor.reset
    /\ ctor.content # << >>
    /\ copy # None
    /\ Len(file) = Len(ctor.content) + 2
    /\ IsPrefix(ctor.content, file)

(* C17: once every call of the two recorders has been left, the log holds  *)
(* one record more per call made; here for calls that a recorder on its    *)
(* own records, those with orders other than (1,).                         *)
C17_NoRecordLost ==
    (/\ \A i \in Recorders : reading[i] = None
     /\ \A k \in 1..Len(hist) : hist[k] # <<1>>)
        => Len(file) = Len(log0) + Len(hist)

(* C14: the cache advertises (0,) in function mode, and advertises (1,) or *)
(* (0,1) only around an objective that advertises (0,1).                   *)
C14_Advertisement ==
    /\ CachedObjective_check_sensi_orders(caps, <<0>>, MODE_FUN)
    /\ \A orders \in {<<1>>, <<0, 1>>} :
          CachedObjective_check_sensi_orders(caps, orders, MODE_FUN)
              => Inner_check_sensi_orders(caps, <<0, 1>>, MODE_FUN)

(* C19: called only with order sets it advertises, the cache calls the     *)
(* wrapped objective only with order sets that objective advertises.       *)
C19_InnerCallsAdvertised ==
    \A k \in 1..Len(last.inner) :
        Inner_check_sensi_orders(caps, last.inner[k], MODE_FUN)

(* The last call repopulated the cache: line 80 returned.                  *)
Repopulated(e) == e.inner = << <<0, 1>> >> /\ ~e.innerRaised

(* C15: while x_cached is set, grad_has_been_used says whether a call with *)
(* orders (1,) or (0,1) has been answered from the cache since the latest  *)
(* repopulation, the repopulating call included; a call clears the flag    *)
(* only by repopulating.                                                   *)
C15_UsedSinceRepopulation ==
    /\ [](x_cached # None => (grad_has_been_used <=> consumed))
    /\ [][(IsCall /\ grad_has_been_used /\ ~grad_has_been_used')
             => Repopulated(last')]_vars

C15_Witness ==
    /\ Len(hist) = 3
    /\ hist[1] = <<0, 1>>
    /\ hist[2] = <<0>>
    /\ hist[3] = <<1>>
    /\ ninner = 2
    /\ last.inner = << >>
    /\ x_cached # None
    /\ grad_has_been_used
    /\ consumed

Count(tags) == Cardinality({k \in 1..Len(run) : run[k] \in tags})

(* C16: in a run of consecutive value-only requests the wrapped objective  *)
(* is asked for the gradient at most once, and after two misses of the run *)
(* the cache is off.                                                       *)
C16_BoundedWaste ==
    /\ Count({"joint", "jointfail"}) <= 1
    /\ Count({"joint", "jointfail", "off"}) >= 2 => x_cached = None

(* C16, amended: in a run of consecutive value-only requests at most one   *)
(* inner (0,1) call returns; after it the run is made of hits until the    *)
(* first miss, which switches the cache off, and from then on of direct    *)
(* inner (0,) calls with the cache off; two misses that the wrapped        *)
(* objective answered leave the cache off; and a value-only request        *)
(* repopulates only a cache whose gradient has been used.                  *)
C16_BoundedWasteReturned ==
    /\ [](/\ Count({"joint"}) <= 1
          /\ Count({"joint", "off"}) >= 2 => x_cached = None
          /\ \A k \in 1..Len(run) :
                /\ run[k] = "joint" =>
                      \A j \in (k + 1)..Len(run) :
                          run[j] \in {"hit", "off", "direct"}
                /\ run[k] \in {"off", "direct"} =>
                      \A j \in (k + 1)..Len(run) : run[j] = "direct"
          /\ (run # << >> /\ run[Len(run)] \in {"off", "direct"})
                => x_cached = None)
    /\ [][(IsCall /\ last'.orders = <<0>> /\ last'.inner = << <<0, 1>> >>)
             => (x_cached # None /\ grad_has_been_used /\ consumed)]_vars

C16_Witness ==
    /\ run = <<"joint", "off">>
    /\ Len(hist) = 3
    /\ ninner = 3
    /\ x_cached = None

(* C18: a call with orders (0,), (1,) or (0,1) calls the wrapped objective *)
(* at most once, and not at all exactly when x_cached is set and equal to  *)
(* the requested point.                                                    *)
C18_AtMostOneInnerCall ==
    [][(IsCall /\ last'.orders \in SupportedOrders) =>
        /\ Len(last'.inner) <= 1
        /\ ninner' = ninner + Len(last'.inner)
        /\ Len(last'.inner) = 0
              <=> (x_cached # None
                   /\ array_equal(last'.x, Deref(heap, x_cached)))
      ]_vars

C18_Witness ==
    /\ Len(hist) = 3
    /\ hist[2] = <<0>>
    /\ last.orders = <<0>>
    /\ last.inner = << >>
    /\ last.raised = None
    /\ ninner = 2
====
